---------------------------- MODULE Spec2Model ----------------------------
(***************************************************************************)
(* Model of Handler.ServeHTTP (src/main.go): one request served by the     *)
(* random-data handler.  The query parameters, the outcome of opening      *)
(* /dev/urandom and the result of every Read and Write call are chosen by  *)
(* the environment; everything else follows the code line by line.         *)
(***************************************************************************)
EXTENDS Integers, Sequences, FiniteSets, TLC

VARIABLES
    sizeParam,      \* r.URL.Query()["size"]: the values given for 'size'
    bufferParam,    \* r.URL.Query()["buffer"]: the values given for 'buffer'
    pc,             \* position of the handler
    dataSize,       \* main.go:46,59
    bufferSize,     \* main.go:67,80
    status,         \* status line sent to the client, 0 while none was sent
    headerWrites,   \* number of WriteHeader calls
    contentType,    \* Content-Type header of the response
    fileState,      \* dataFile: "unopened", "open", "closed"
    openCount,      \* number of os.Open calls
    closeCount,     \* number of dataFile.Close calls
    deferred,       \* TRUE once the deferred Close is registered
    dataBufferLen,  \* len(dataBuffer), -1 before make
    pendingSize,    \* main.go:111
    readSize,       \* main.go:113, length of the chunk in flight
    readCount,      \* number of dataFile.Read calls
    writeCount,     \* number of w.Write calls
    chunksWritten,  \* number of Write calls that took a whole chunk without error
    shortChunks,    \* number of those whose length was not bufferSize
    bodyBytes,      \* body bytes accepted by the response writer
    fault,          \* the I/O fault the environment injected, "none" if none
    panicked,       \* TRUE when the handler ended in a run-time panic
    logs,           \* entries emitted through h.logger
    chunksRead,     \* number of Read calls that filled a whole chunk without error
    lastIO,         \* the last Read or Write call: its slice length and result
    others,         \* the suspended handlers: the locals of each of them
    cur,            \* the request whose handler is running
    readLimit       \* exploration limit on the number of Read calls

vars == <<sizeParam, bufferParam, pc, dataSize, bufferSize, status,
          headerWrites, contentType, fileState, openCount, closeCount,
          deferred, dataBufferLen, pendingSize, readSize, readCount,
          writeCount, chunksWritten, shortChunks, bodyBytes, fault,
          panicked, logs, chunksRead, lastIO, others, cur, readLimit>>

-----------------------------------------------------------------------------
(* Bounds of the exploration. *)

MaxSize == 6            \* sizes 0..MaxSize are requested as decimal texts
MaxBuffer == 3          \* buffers 0..MaxBuffer are requested as decimal texts
MaxReads == 9           \* Read calls explored per request under Spec
MaxReadsDefaults == 32770   \* Read calls explored per request under SpecDefaults
NumRequests == 2        \* requests served concurrently under SpecConcurrent

-----------------------------------------------------------------------------
(* Program constants. *)

defaultDataSize == 1 * (2 ^ 30)

\* Variant: the buffer default counted in thousands.
defaultBufferSizeDecimal == 32 * (10 ^ 3)

defaultBufferSize == 32 * (2 ^ 10)

StatusOK == 200
StatusBadRequest == 400
StatusInternalServerError == 500

-----------------------------------------------------------------------------
(* Texts are sequences of one-character strings. *)

\* url.Values maps a key to the list of its values.
Absent == <<>>                  \* the key is not in the query
Present(text) == <<text>>       \* key=text

DigitChars == <<"0", "1", "2", "3", "4", "5", "6", "7", "8", "9">>

IsDigit(c) == \E i \in 1..10 : DigitChars[i] = c

DigitVal(c) == (CHOOSE i \in 1..10 : DigitChars[i] = c) - 1

\* Decimal text of a natural number (used to build the requests).
RECURSIVE FormatNat(_)
FormatNat(n) ==
    IF n < 10 THEN <<DigitChars[n + 1]>>
    ELSE Append(FormatNat(n \div 10), DigitChars[(n % 10) + 1])

\* url.Values.Get: the first value of the key, "" when the key is missing.
Get(values) == IF Len(values) = 0 THEN <<>> ELSE values[1]

RECURSIVE StripZeros(_)
StripZeros(ds) ==
    IF ds # <<>> /\ Head(ds) = "0" THEN StripZeros(Tail(ds)) ELSE ds

RECURSIVE DigitsValue(_)
DigitsValue(ds) ==
    IF ds = <<>> THEN 0
    ELSE 10 * DigitsValue(SubSeq(ds, 1, Len(ds) - 1)) + DigitVal(ds[Len(ds)])

\* Digits of 2^63 - 1, the largest int64.
MaxInt64Digits ==
    <<"9", "2", "2", "3", "3", "7", "2", "0", "3", "6",
      "8", "5", "4", "7", "7", "5", "8", "0", "7">>

\* Digits of 2^63, the magnitude of the smallest int64.
MinInt64Digits ==
    <<"9", "2", "2", "3", "3", "7", "2", "0", "3", "6",
      "8", "5", "4", "7", "7", "5", "8", "0", "8">>

RECURSIVE DigitsGreater(_, _)
DigitsGreater(a, b) ==      \* a > b for digit sequences of equal length
    IF a = <<>> THEN FALSE
    ELSE IF Head(a) # Head(b) THEN DigitVal(Head(a)) > DigitVal(Head(b))
    ELSE DigitsGreater(Tail(a), Tail(b))

\* The magnitude does not fit: strconv reports ErrRange.
OutOfRange(ds, neg) ==
    LET sig == StripZeros(ds)
        lim == IF neg THEN MinInt64Digits ELSE MaxInt64Digits
    IN  \/ Len(sig) > Len(lim)
        \/ Len(sig) = Len(lim) /\ DigitsGreater(sig, lim)

\* The digits of a text after its optional sign.
Magnitude(text) ==
    IF text # <<>> /\ Head(text) \in {"+", "-"} THEN Tail(text) ELSE text

IsNegative(text) == text # <<>> /\ Head(text) = "-"

\* Variant: a text without digits is accepted.
ParsesWithoutDigits(text) ==
    LET ds == Magnitude(text)
    IN  /\ \A i \in 1..Len(ds) : IsDigit(ds[i])
        /\ ~OutOfRange(ds, IsNegative(text))

\* strconv accepts the text: one or more decimal digits after the sign,
\* within the int64 range.
Parses(text) ==
    LET ds == Magnitude(text)
    IN  /\ ds # <<>>
        /\ \A i \in 1..Len(ds) : IsDigit(ds[i])
        /\ ~OutOfRange(ds, IsNegative(text))

ParsedValue(text) ==
    IF IsNegative(text) THEN 0 - DigitsValue(StripZeros(Magnitude(text)))
    ELSE DigitsValue(StripZeros(Magnitude(text)))

\* Variant: the parse error is dropped and the zero value is used.
ParseIntIgnoringError(text) ==
    [ok |-> TRUE, value |-> IF Parses(text) THEN ParsedValue(text) ELSE 0]

\* strconv.ParseInt(text, 10, 64): the value, or an error and zero.
ParseInt(text) ==
    IF Parses(text) THEN [ok |-> TRUE, value |-> ParsedValue(text)]
    ELSE [ok |-> FALSE, value |-> 0]

-----------------------------------------------------------------------------
(* Requests. *)

BadTexts ==
    { <<"a", "b", "c">>, <<"4", "x">>, <<"-">>, <<"1", ".", "5">>,
      <<"9", "9", "9", "9", "9", "9", "9", "9", "9", "9",
        "9", "9", "9", "9", "9", "9", "9", "9", "9", "9">> }

EmptyText == <<>>

SizeTexts ==
    {EmptyText} \cup BadTexts
        \cup {FormatNat(n) : n \in 0..MaxSize}
        \cup {<<"-", "1">>, <<"+", "2">>, <<"0", "3">>}

BufferTexts ==
    {EmptyText} \cup BadTexts
        \cup {FormatNat(n) : n \in 0..MaxBuffer}
        \cup {<<"-", "1">>, <<"+", "2">>}

SizeParams == {Absent} \cup {Present(t) : t \in SizeTexts}

BufferParams == {Absent} \cup {Present(t) : t \in BufferTexts}

\* Requests that exercise the defaults: a parameter is omitted, or is so
\* large that the transfer takes a few chunks only.
SizeParamsDefaults ==
    {Absent, Present(<<"a", "b", "c">>), Present(FormatNat(65536))}

BufferParamsDefaults ==
    {Absent, Present(<<"x", "y", "z">>), Present(FormatNat(536870912))}

-----------------------------------------------------------------------------
(* Helpers of the handler. *)

Entry(level, msg, attrs) == [level |-> level, msg |-> msg, attrs |-> attrs]

\* Variant: the chunk is always a whole buffer.
ChunkLenWholeBuffer(pending, buffer) == buffer

\* main.go:113-118
ChunkLen(pending, buffer) == IF pending > buffer THEN buffer ELSE pending

\* What a Read or Write call on a slice of length len may return: n bytes
\* and possibly an error.
IOResults(len) ==
    {[n |-> k, err |-> e] : k \in ({0, len - 1, len} \cap (0..len)), e \in BOOLEAN}

\* Record of a Read or Write call on a slice of length len.
IOCall(op, len, res) == [op |-> op, len |-> len, n |-> res.n, err |-> res.err]

\* What the environment did in a call on a slice of length len.
IOFault(res, len, onErr, onShort) ==
    IF res.err THEN onErr ELSE IF res.n # len THEN onShort ELSE "none"

\* Variant: the error returned by Read is not checked.
ReadOkIgnoringError(res, len) == res.n = len

\* Variant: the length returned by Read is not checked.
ReadOkUnchecked(res, len) == ~res.err

\* main.go:121,129: the read delivered the whole chunk.
ReadOk(res, len) == ~res.err /\ res.n = len

\* Variant: the length returned by Write is not checked.
WriteOkUnchecked(res, len) == ~res.err

\* main.go:138,146: the write took the whole chunk.
WriteOk(res, len) == ~res.err /\ res.n = len

\* Variant: the chunk is counted twice.
DecrementTwice(pending, n) == pending - 2 * n

\* Variant: the counter is decremented one too many.
DecrementOneMore(pending, n) == pending - n - 1

\* main.go:154
Decrement(pending, n) == pending - n

\* http.ResponseWriter.WriteHeader: the first call fixes the status line.
WriteHeader(code) ==
    /\ status' = IF status = 0 THEN code ELSE status
    /\ headerWrites' = headerWrites + 1

-----------------------------------------------------------------------------
(* State after the listener has accepted the request. *)

InitRequest(sizes, buffers, limit) ==
    /\ sizeParam \in sizes
    /\ bufferParam \in buffers
    /\ readLimit = limit
    /\ pc = "start"
    /\ dataSize = 0
    /\ bufferSize = 0
    /\ status = 0
    /\ headerWrites = 0
    /\ contentType = ""
    /\ fileState = "unopened"
    /\ openCount = 0
    /\ closeCount = 0
    /\ deferred = FALSE
    /\ dataBufferLen = -1
    /\ pendingSize = 0
    /\ readSize = 0
    /\ readCount = 0
    /\ writeCount = 0
    /\ chunksWritten = 0
    /\ shortChunks = 0
    /\ bodyBytes = 0
    /\ fault = "none"
    /\ panicked = FALSE
    /\ logs = <<>>
    /\ chunksRead = 0
    /\ lastIO = IOCall("none", 0, [n |-> 0, err |-> FALSE])

\* The locals of a handler that has not started yet.
NewContexts(sizes, buffers, limit) ==
    {[sizeParam |-> s, bufferParam |-> b, readLimit |-> limit, pc |-> "start",
      dataSize |-> 0, bufferSize |-> 0, status |-> 0, headerWrites |-> 0,
      contentType |-> "", fileState |-> "unopened", openCount |-> 0,
      closeCount |-> 0, deferred |-> FALSE, dataBufferLen |-> -1,
      pendingSize |-> 0, readSize |-> 0, readCount |-> 0, writeCount |-> 0,
      chunksWritten |-> 0, shortChunks |-> 0, bodyBytes |-> 0,
      fault |-> "none", panicked |-> FALSE, logs |-> <<>>, chunksRead |-> 0,
      lastIO |-> IOCall("none", 0, [n |-> 0, err |-> FALSE])]
        : s \in sizes, b \in buffers}

\* The locals of the running handler.
Context ==
    [sizeParam |-> sizeParam, bufferParam |-> bufferParam,
     readLimit |-> readLimit, pc |-> pc, dataSize |-> dataSize,
     bufferSize |-> bufferSize, status |-> status,
     headerWrites |-> headerWrites, contentType |-> contentType,
     fileState |-> fileState, openCount |-> openCount,
     closeCount |-> closeCount, deferred |-> deferred,
     dataBufferLen |-> dataBufferLen, pendingSize |-> pendingSize,
     readSize |-> readSize, readCount |-> readCount, writeCount |-> writeCount,
     chunksWritten |-> chunksWritten, shortChunks |-> shortChunks,
     bodyBytes |-> bodyBytes, fault |-> fault, panicked |-> panicked,
     logs |-> logs, chunksRead |-> chunksRead, lastIO |-> lastIO]

\* One request, served alone.
InitWith(sizes, buffers, limit) ==
    /\ InitRequest(sizes, buffers, limit)
    /\ cur = 1
    /\ others = <<>>

Init == InitWith(SizeParams, BufferParams, MaxReads)

\* Requests served side by side: a parse failure next to a two-chunk transfer.
ConcurrentSizes == {Present(<<"2">>), Present(<<"a", "b", "c">>)}

ConcurrentBuffers == {Present(<<"1">>)}

\* NumRequests requests accepted by the listener, the first one running.
InitConcurrent ==
    /\ InitRequest(ConcurrentSizes, ConcurrentBuffers, MaxReads)
    /\ cur = 1
    /\ others \in [2..NumRequests ->
                        NewContexts(ConcurrentSizes, ConcurrentBuffers, MaxReads)]

InitDefaults == InitWith(SizeParamsDefaults, BufferParamsDefaults, MaxReadsDefaults)

\* Variables grouped by what an action leaves alone.
sched == <<others, cur>>
request == <<sizeParam, bufferParam, readLimit>>
file == <<fileState, openCount, closeCount, deferred>>
response == <<status, headerWrites, contentType, bodyBytes>>
loop == <<dataBufferLen, pendingSize, readSize, readCount, writeCount,
          chunksWritten, shortChunks, chunksRead, lastIO>>

\* main.go:31-43
ReceiveRequest ==
    /\ pc = "start"
    /\ logs' = Append(logs, Entry("INFO", "Received request", <<>>))
    /\ pc' = "parseSize"
    /\ UNCHANGED <<sched, request, file, response, loop, dataSize, bufferSize,
                   fault, panicked>>

\* Variant: the return after the 400 is missing.
ParseSizeNoReturn ==
    /\ pc = "parseSize"
    /\ LET text == Get(sizeParam)
           res == ParseInt(text)
       IN  IF text # <<>> /\ ~res.ok
           THEN /\ dataSize' = defaultDataSize
                /\ logs' = Append(Append(logs, Entry("ERROR",
                               "Failed to parse response size query paramer", <<>>)),
                               Entry("INFO", "Response size", <<dataSize'>>))
                /\ WriteHeader(StatusBadRequest)
                /\ pc' = "parseBuffer"
           ELSE /\ dataSize' = IF text # <<>> THEN res.value ELSE defaultDataSize
                /\ logs' = Append(logs, Entry("INFO", "Response size", <<dataSize'>>))
                /\ pc' = "parseBuffer"
                /\ UNCHANGED <<status, headerWrites>>
    /\ UNCHANGED <<sched, request, file, loop, contentType, bodyBytes, bufferSize,
                   fault, panicked>>

\* main.go:45-64
ParseSize ==
    /\ pc = "parseSize"
    /\ LET text == Get(sizeParam)
           res == ParseInt(text)
       IN  IF text # <<>> /\ ~res.ok
           THEN /\ dataSize' = defaultDataSize
                /\ logs' = Append(logs, Entry("ERROR",
                               "Failed to parse response size query paramer", <<>>))
                /\ WriteHeader(StatusBadRequest)
                /\ pc' = "done"
           ELSE /\ dataSize' = IF text # <<>> THEN res.value ELSE defaultDataSize
                /\ logs' = Append(logs, Entry("INFO", "Response size", <<dataSize'>>))
                /\ pc' = "parseBuffer"
                /\ UNCHANGED <<status, headerWrites>>
    /\ UNCHANGED <<sched, request, file, loop, contentType, bodyBytes, bufferSize,
                   fault, panicked>>

\* Variant: the return after the 400 is missing.
ParseBufferNoReturn ==
    /\ pc = "parseBuffer"
    /\ LET text == Get(bufferParam)
           res == ParseInt(text)
       IN  IF text # <<>> /\ ~res.ok
           THEN /\ bufferSize' = defaultBufferSize
                /\ logs' = Append(Append(logs, Entry("ERROR",
                               "Failed to parse buffer size query paramer", <<>>)),
                               Entry("INFO", "Buffer size", <<bufferSize'>>))
                /\ WriteHeader(StatusBadRequest)
                /\ pc' = "open"
           ELSE /\ bufferSize' = IF text # <<>> THEN res.value ELSE defaultBufferSize
                /\ logs' = Append(logs, Entry("INFO", "Buffer size", <<bufferSize'>>))
                /\ pc' = "open"
                /\ UNCHANGED <<status, headerWrites>>
    /\ UNCHANGED <<sched, request, file, loop, contentType, bodyBytes, dataSize,
                   fault, panicked>>

\* main.go:66-85
ParseBuffer ==
    /\ pc = "parseBuffer"
    /\ LET text == Get(bufferParam)
           res == ParseInt(text)
       IN  IF text # <<>> /\ ~res.ok
           THEN /\ bufferSize' = defaultBufferSize
                /\ logs' = Append(logs, Entry("ERROR",
                               "Failed to parse buffer size query paramer", <<>>))
                /\ WriteHeader(StatusBadRequest)
                /\ pc' = "done"
           ELSE /\ bufferSize' = IF text # <<>> THEN res.value ELSE defaultBufferSize
                /\ logs' = Append(logs, Entry("INFO", "Buffer size", <<bufferSize'>>))
                /\ pc' = "open"
                /\ UNCHANGED <<status, headerWrites>>
    /\ UNCHANGED <<sched, request, file, loop, contentType, bodyBytes, dataSize,
                   fault, panicked>>

\* Variant: the Close is deferred before the error of os.Open is checked.
OpenSourceDeferFirst ==
    /\ pc = "open"
    /\ openCount' = openCount + 1
    /\ deferred' = TRUE
    /\ \E ok \in BOOLEAN :
          IF ok
          THEN /\ fileState' = "open"
               /\ pc' = "headers"
               /\ UNCHANGED <<status, headerWrites, logs, fault>>
          ELSE /\ fault' = "open"
               /\ logs' = Append(logs, Entry("ERROR", "Failed to open data file", <<>>))
               /\ WriteHeader(StatusInternalServerError)
               /\ pc' = "close"
               /\ UNCHANGED fileState
    /\ UNCHANGED <<sched, request, loop, closeCount, contentType, bodyBytes, dataSize,
                   bufferSize, panicked>>

\* main.go:87-105: os.Open succeeds or fails; on success the Close is deferred.
OpenSource ==
    /\ pc = "open"
    /\ openCount' = openCount + 1
    /\ \E ok \in BOOLEAN :
          IF ok
          THEN /\ fileState' = "open"
               /\ deferred' = TRUE
               /\ pc' = "headers"
               /\ UNCHANGED <<status, headerWrites, logs, fault>>
          ELSE /\ fault' = "open"
               /\ logs' = Append(logs, Entry("ERROR", "Failed to open data file", <<>>))
               /\ WriteHeader(StatusInternalServerError)
               /\ pc' = "done"
               /\ UNCHANGED <<fileState, deferred>>
    /\ UNCHANGED <<sched, request, loop, closeCount, contentType, bodyBytes, dataSize,
                   bufferSize, panicked>>

\* main.go:107-111: the headers and the status go out, the buffer is
\* allocated (make panics on a negative length) and the counter is set.
SendHeaders ==
    /\ pc = "headers"
    /\ contentType' = "application/octet-stream"
    /\ WriteHeader(StatusOK)
    /\ IF bufferSize < 0
       THEN /\ panicked' = TRUE
            /\ pc' = "close"
            /\ UNCHANGED <<dataBufferLen, pendingSize>>
       ELSE /\ dataBufferLen' = bufferSize
            /\ pendingSize' = dataSize
            /\ pc' = "loop"
            /\ UNCHANGED panicked
    /\ UNCHANGED <<sched, request, file, bodyBytes, dataSize, bufferSize, readSize,
                   readCount, writeCount, chunksWritten, shortChunks, chunksRead,
                   lastIO, fault, logs>>

\* main.go:112-136: the loop test, the length of the chunk, the slice
\* (a length outside the buffer panics) and the Read with its two checks.
ReadChunk ==
    /\ pc = "loop"
    /\ pendingSize > 0
    /\ readCount < readLimit
    /\ readSize' = ChunkLen(pendingSize, bufferSize)
    /\ IF readSize' < 0 \/ readSize' > dataBufferLen
       THEN /\ panicked' = TRUE
            /\ pc' = "close"
            /\ UNCHANGED <<readCount, chunksRead, lastIO, fault, logs>>
       ELSE /\ readCount' = readCount + 1
            /\ UNCHANGED panicked
            /\ \E res \in IOResults(readSize') :
                  /\ lastIO' = IOCall("read", readSize', res)
                  /\ fault' = IF fault = "none"
                              THEN IOFault(res, readSize', "readError", "shortRead")
                              ELSE fault
                  /\ chunksRead' = IF ~res.err /\ res.n = readSize'
                                   THEN chunksRead + 1 ELSE chunksRead
                  /\ IF ReadOk(res, readSize')
                     THEN /\ pc' = "write"
                          /\ UNCHANGED logs
                     ELSE /\ pc' = "close"
                          /\ logs' = Append(logs,
                              IF res.err
                              THEN Entry("ERROR", "Failed to read data", <<readSize'>>)
                              ELSE Entry("ERROR", "Unexpected read size",
                                         <<readSize', res.n>>))
    /\ UNCHANGED <<sched, request, file, response, dataSize, bufferSize, dataBufferLen,
                   pendingSize, writeCount, chunksWritten, shortChunks>>

\* main.go:137-155: the Write with its two checks, then the decrement.
WriteChunk ==
    /\ pc = "write"
    /\ writeCount' = writeCount + 1
    /\ \E res \in IOResults(readSize) :
          /\ bodyBytes' = bodyBytes + res.n
          /\ lastIO' = IOCall("write", readSize, res)
          /\ fault' = IF fault = "none"
                      THEN IOFault(res, readSize, "writeError", "shortWrite")
                      ELSE fault
          /\ IF WriteOk(res, readSize)
             THEN /\ pendingSize' = Decrement(pendingSize, readSize)
                  /\ chunksWritten' = chunksWritten + 1
                  /\ shortChunks' = IF readSize # bufferSize
                                    THEN shortChunks + 1 ELSE shortChunks
                  /\ pc' = "loop"
                  /\ UNCHANGED logs
             ELSE /\ pc' = "close"
                  /\ logs' = Append(logs,
                         IF res.err
                         THEN Entry("ERROR", "Failed to write data", <<readSize>>)
                         ELSE Entry("ERROR", "Unexpected write size",
                                    <<readSize, res.n>>))
                  /\ UNCHANGED <<pendingSize, chunksWritten, shortChunks>>
    /\ UNCHANGED <<sched, request, file, status, headerWrites, contentType, dataSize,
                   bufferSize, dataBufferLen, readSize, readCount, chunksRead,
                   panicked>>

\* main.go:112,157-166: the loop ends and the summary is logged.
Finish ==
    /\ pc = "loop"
    /\ ~(pendingSize > 0)
    /\ logs' = Append(logs, Entry("INFO", "Data sent", <<dataSize, bufferSize>>))
    /\ pc' = "close"
    /\ UNCHANGED <<sched, request, file, response, loop, dataSize, bufferSize,
                   fault, panicked>>

\* Variant: the Close was never deferred.
CloseSourceMissing ==
    /\ pc = "close"
    /\ pc' = "done"
    /\ UNCHANGED <<sched, request, file, response, loop, dataSize, bufferSize, fault,
                   panicked, logs>>

\* main.go:97-105: the deferred function runs when the handler returns or panics.
CloseSource ==
    /\ pc = "close"
    /\ IF deferred
       THEN /\ fileState' = "closed"
            /\ closeCount' = closeCount + 1
       ELSE UNCHANGED <<fileState, closeCount>>
    /\ pc' = "done"
    /\ UNCHANGED <<sched, request, response, loop, openCount, deferred, dataSize,
                   bufferSize, fault, panicked, logs>>

Next ==
    \/ ReceiveRequest
    \/ ParseSize
    \/ ParseBuffer
    \/ OpenSource
    \/ SendHeaders
    \/ ReadChunk
    \/ WriteChunk
    \/ Finish
    \/ CloseSource

Spec == Init /\ [][Next]_vars

\* Variant: the counter of pending bytes is one variable shared by all handlers.
LoadSharingPending(ctx) ==
    /\ sizeParam' = ctx.sizeParam /\ bufferParam' = ctx.bufferParam
    /\ readLimit' = ctx.readLimit /\ pc' = ctx.pc
    /\ dataSize' = ctx.dataSize /\ bufferSize' = ctx.bufferSize
    /\ status' = ctx.status /\ headerWrites' = ctx.headerWrites
    /\ contentType' = ctx.contentType /\ fileState' = ctx.fileState
    /\ openCount' = ctx.openCount /\ closeCount' = ctx.closeCount
    /\ deferred' = ctx.deferred /\ dataBufferLen' = ctx.dataBufferLen
    /\ pendingSize' = pendingSize /\ readSize' = ctx.readSize
    /\ readCount' = ctx.readCount /\ writeCount' = ctx.writeCount
    /\ chunksWritten' = ctx.chunksWritten /\ shortChunks' = ctx.shortChunks
    /\ bodyBytes' = ctx.bodyBytes /\ fault' = ctx.fault
    /\ panicked' = ctx.panicked /\ logs' = ctx.logs
    /\ chunksRead' = ctx.chunksRead /\ lastIO' = ctx.lastIO

\* main.go:30-167: everything the handler works on is local to its call,
\* so resuming a handler brings back all of it.
Load(ctx) ==
    /\ sizeParam' = ctx.sizeParam /\ bufferParam' = ctx.bufferParam
    /\ readLimit' = ctx.readLimit /\ pc' = ctx.pc
    /\ dataSize' = ctx.dataSize /\ bufferSize' = ctx.bufferSize
    /\ status' = ctx.status /\ headerWrites' = ctx.headerWrites
    /\ contentType' = ctx.contentType /\ fileState' = ctx.fileState
    /\ openCount' = ctx.openCount /\ closeCount' = ctx.closeCount
    /\ deferred' = ctx.deferred /\ dataBufferLen' = ctx.dataBufferLen
    /\ pendingSize' = ctx.pendingSize /\ readSize' = ctx.readSize
    /\ readCount' = ctx.readCount /\ writeCount' = ctx.writeCount
    /\ chunksWritten' = ctx.chunksWritten /\ shortChunks' = ctx.shortChunks
    /\ bodyBytes' = ctx.bodyBytes /\ fault' = ctx.fault
    /\ panicked' = ctx.panicked /\ logs' = ctx.logs
    /\ chunksRead' = ctx.chunksRead /\ lastIO' = ctx.lastIO

\* main.go:211: the server runs each request's handler in a goroutine of its
\* own; the running handler is suspended and another one goes on.
Switch ==
    \E i \in DOMAIN others :
        /\ others' = [j \in (DOMAIN others \ {i}) \cup {cur} |->
                          IF j = cur THEN Context ELSE others[j]]
        /\ cur' = i
        /\ Load(others[i])

NextConcurrent ==
    \/ ReceiveRequest
    \/ ParseSize
    \/ ParseBuffer
    \/ OpenSource
    \/ SendHeaders
    \/ ReadChunk
    \/ WriteChunk
    \/ Finish
    \/ CloseSource
    \/ Switch

SpecConcurrent == InitConcurrent /\ [][NextConcurrent]_vars

SpecDefaults == InitDefaults /\ [][Next]_vars

-----------------------------------------------------------------------------
(* Vocabulary of the properties. *)

Done == pc = "done"

HasLog(msg) == \E i \in 1..Len(logs) : logs[i].msg = msg

SizeResolved == HasLog("Response size")

BufferResolved == HasLog("Buffer size")

Min(a, b) == IF a < b THEN a ELSE b

Ceil(a, b) == (a + b - 1) \div b

\* An optional sign followed by one or more decimal digits.
IsDecimalInteger(text) ==
    LET ds == IF text # <<>> /\ Head(text) \in {"+", "-"} THEN Tail(text) ELSE text
    IN  ds # <<>>
        /\ \A i \in 1..Len(ds) :
             ds[i] \in {"0", "1", "2", "3", "4", "5", "6", "7", "8", "9"}

SizePresent == Len(sizeParam) > 0

BufferPresent == Len(bufferParam) > 0

ReadFaults == {"readError", "shortRead"}

WriteFaults == {"writeError", "shortWrite"}

\* A transfer with valid sizes in which the environment injected no fault.
CleanTransfer ==
    /\ SizeResolved /\ BufferResolved
    /\ dataSize >= 0 /\ bufferSize >= 1
    /\ openCount = 1 /\ fault = "none"

-----------------------------------------------------------------------------
(* C1: when the size resolves to S >= 0, the buffer to B >= 1, the source  *)
(* opens and no read or write fails or is short, the handler returns with  *)
(* status 200 and exactly S body bytes written.                            *)
C1_ExactBody ==
    (Done /\ CleanTransfer) => (status = 200 /\ bodyBytes = dataSize)

C1_Witness ==
    Done /\ CleanTransfer /\ dataSize = 5 /\ bufferSize = 2 /\ bodyBytes = 5

(* C2: without I/O failure the loop makes exactly ceil(S / B) reads and    *)
(* ceil(S / B) writes (none when S = 0); every chunk has length            *)
(* min(remaining, B), so all chunks but the last have length B and the     *)
(* last has length S mod B, or B when B divides S and S > 0.               *)
C2_ChunkCount ==
    /\ [](pc = "write" => readSize = Min(pendingSize, bufferSize))
    /\ []((Done /\ CleanTransfer) =>
            /\ readCount = Ceil(dataSize, bufferSize)
            /\ writeCount = Ceil(dataSize, bufferSize)
            /\ chunksWritten = Ceil(dataSize, bufferSize)
            /\ (dataSize = 0 => readCount = 0 /\ writeCount = 0)
            /\ (dataSize % bufferSize = 0 => shortChunks = 0)
            /\ (dataSize % bufferSize # 0 =>
                    shortChunks = 1 /\ readSize = dataSize % bufferSize)
            /\ (dataSize > 0 /\ dataSize % bufferSize = 0 => readSize = bufferSize))
    /\ [][shortChunks >= 1 => writeCount' = writeCount]_vars

C2_Witness ==
    /\ Done /\ CleanTransfer /\ dataSize = 5 /\ bufferSize = 2
    /\ readCount = 3 /\ writeCount = 3 /\ shortChunks = 1 /\ readSize = 1

(* C3 as stated: whenever the size parameter is present and is not a valid *)
(* base-10 integer the handler answers 400, writes no body, never opens    *)
(* the source, never reads or writes and never sends 200.                  *)
C3_AsStated ==
    (SizePresent /\ ~IsDecimalInteger(Get(sizeParam))) =>
        /\ status \in {0, 400}
        /\ (Done => status = 400)
        /\ bodyBytes = 0 /\ openCount = 0 /\ readCount = 0 /\ writeCount = 0

(* C3 amended: whenever the size parameter is present with a non-empty     *)
(* value that is not a valid base-10 integer the handler answers 400,      *)
(* writes no body, never opens the source, never reads or writes and never *)
(* sends 200, whatever the buffer parameter.                               *)
C3_BadSize ==
    (Get(sizeParam) # <<>> /\ ~IsDecimalInteger(Get(sizeParam))) =>
        /\ status \in {0, 400}
        /\ (Done => status = 400)
        /\ bodyBytes = 0 /\ openCount = 0 /\ readCount = 0 /\ writeCount = 0

C3_Witness ==
    /\ Done /\ status = 400 /\ sizeParam = Present(<<"a", "b", "c">>)
    /\ bufferParam = Present(<<"2">>) /\ openCount = 0

(* C4 as stated: whenever the size parameter is absent or a valid integer  *)
(* and the buffer parameter is present and is not a valid base-10 integer  *)
(* the handler answers 400, writes no body and never opens the source nor  *)
(* reads or writes.                                                        *)
C4_AsStated ==
    ((~SizePresent \/ IsDecimalInteger(Get(sizeParam)))
        /\ BufferPresent /\ ~IsDecimalInteger(Get(bufferParam))) =>
        /\ (Done => status = 400)
        /\ bodyBytes = 0 /\ openCount = 0 /\ readCount = 0 /\ writeCount = 0

(* C4 amended: whenever the size parameter is absent or a valid integer    *)
(* and the buffer parameter is present with a non-empty value that is not  *)
(* a valid base-10 integer the handler answers 400, writes no body and     *)
(* never opens the source nor reads or writes.                             *)
C4_BadBuffer ==
    ((~SizePresent \/ IsDecimalInteger(Get(sizeParam)))
        /\ Get(bufferParam) # <<>> /\ ~IsDecimalInteger(Get(bufferParam))) =>
        /\ (Done => status = 400)
        /\ bodyBytes = 0 /\ openCount = 0 /\ readCount = 0 /\ writeCount = 0

C4_Witness ==
    /\ Done /\ status = 400 /\ sizeParam = Present(<<"5">>)
    /\ bufferParam = Present(<<"4", "x">>) /\ SizeResolved /\ openCount = 0

(* C5: when both parameters resolve and opening the source fails the       *)
(* handler answers 500, writes no body, performs no read and no write,     *)
(* never sends 200 and closes no source.                                   *)
C5_OpenFailure ==
    fault = "open" =>
        /\ Done /\ status = 500 /\ headerWrites = 1
        /\ SizeResolved /\ BufferResolved
        /\ bodyBytes = 0 /\ readCount = 0 /\ writeCount = 0
        /\ closeCount = 0 /\ fileState = "unopened"

C5_Witness ==
    Done /\ fault = "open" /\ status = 500 /\ dataSize = 5 /\ bufferSize = 2

(* C6: when the (k+1)-th read fails or is short after k chunks went        *)
(* through, exactly k chunks have been written when the handler returns:   *)
(* nothing of the failed chunk is written, no read or write follows, the   *)
(* read is not retried, and the source is closed.                          *)
C6_ReadFailure ==
    /\ [](fault \in ReadFaults =>
            /\ pc \in {"close", "done"}
            /\ writeCount = readCount - 1
            /\ chunksWritten = readCount - 1
            /\ bodyBytes = (readCount - 1) * bufferSize
            /\ bodyBytes = dataSize - pendingSize
            /\ (Done => fileState = "closed" /\ closeCount = 1))
    /\ [][(fault \in ReadFaults) =>
            (readCount' = readCount /\ writeCount' = writeCount
                /\ bodyBytes' = bodyBytes)]_vars

C6_Witness ==
    /\ Done /\ fault = "shortRead" /\ dataSize = 5 /\ bufferSize = 1
    /\ readCount = 3 /\ chunksWritten = 2 /\ bodyBytes = 2 /\ fileState = "closed"

(* C7: when a write fails or is short the loop aborts at once: no read or  *)
(* write follows, the write is not retried, remaining is not decremented   *)
(* for that chunk, no completion entry is logged, and the source is        *)
(* closed.                                                                 *)
C7_WriteFailure ==
    /\ [](fault \in WriteFaults =>
            /\ pc \in {"close", "done"}
            /\ readCount = writeCount
            /\ chunksWritten = writeCount - 1
            /\ pendingSize = dataSize - (writeCount - 1) * bufferSize
            /\ ~HasLog("Data sent")
            /\ (Done => fileState = "closed" /\ closeCount = 1))
    /\ [][(fault \in WriteFaults) =>
            (readCount' = readCount /\ writeCount' = writeCount
                /\ pendingSize' = pendingSize /\ bodyBytes' = bodyBytes)]_vars

C7_Witness ==
    /\ Done /\ fault = "shortWrite" /\ dataSize = 5 /\ bufferSize = 2
    /\ writeCount = 2 /\ pendingSize = 3 /\ fileState = "closed"

(* C8: the source is opened at most once; once opened it is closed exactly *)
(* once, at handler return, on every exit path; it is never read after it  *)
(* is closed and never closed when it was not opened.                      *)
C8_SourceLifetime ==
    /\ [](/\ openCount <= 1 /\ closeCount <= 1
          /\ (fileState = "open" => openCount = 1 /\ fault # "open" /\ ~Done)
          /\ (closeCount = 1 => Done /\ fileState = "closed")
          /\ (fileState = "closed" => openCount = 1 /\ fault # "open")
          /\ ((Done /\ openCount = 1 /\ fault # "open") =>
                  fileState = "closed" /\ closeCount = 1)
          /\ ((Done /\ (openCount = 0 \/ fault = "open")) =>
                  fileState = "unopened" /\ closeCount = 0))
    /\ [][readCount' # readCount => (fileState = "open" /\ fileState' = "open")]_vars

C8_Witness ==
    /\ Done /\ fault = "readError" /\ openCount = 1 /\ closeCount = 1
    /\ fileState = "closed"

(* C9: with both parameters omitted the handler uses 1073741824 and 32768, *)
(* so a transfer without failure moves exactly 32768 chunks of 32768       *)
(* bytes; with one of them omitted it uses the default for that one and    *)
(* the supplied value for the other.                                       *)
C9_Defaults ==
    /\ (SizeResolved /\ ~SizePresent) => dataSize = 1073741824
    /\ (BufferResolved /\ ~BufferPresent) => bufferSize = 32768
    /\ (SizeResolved /\ sizeParam = Present(FormatNat(65536))) => dataSize = 65536
    /\ (BufferResolved /\ bufferParam = Present(FormatNat(536870912))) =>
            bufferSize = 536870912
    /\ (Done /\ ~SizePresent /\ ~BufferPresent /\ openCount = 1 /\ fault = "none") =>
            /\ status = 200
            /\ readCount = 32768 /\ writeCount = 32768 /\ chunksWritten = 32768
            /\ shortChunks = 0 /\ bodyBytes = 32768 * 32768

C9_Witness ==
    /\ Done /\ ~SizePresent /\ ~BufferPresent /\ fault = "none"
    /\ chunksWritten = 32768 /\ bodyBytes = 1073741824

(* C10: the status is set exactly once and never changes: 200 goes out     *)
(* only after both parameters are resolved and the source is opened, 400   *)
(* and 500 only when no 200 and no body byte was sent, and after 200 no    *)
(* failure emits another status.                                           *)
C10_StatusOnce ==
    /\ [](/\ headerWrites <= 1
          /\ (headerWrites = 0 <=> status = 0)
          /\ (Done => headerWrites = 1)
          /\ (status = 200 =>
                  SizeResolved /\ BufferResolved /\ openCount = 1
                      /\ fileState # "unopened")
          /\ (status \in {400, 500} => bodyBytes = 0 /\ contentType = "")
          /\ (bodyBytes > 0 => status = 200))
    /\ [][status # 0 => (status' = status /\ headerWrites' = headerWrites)]_vars

C10_Witness ==
    /\ Done /\ status = 200 /\ headerWrites = 1 /\ fault = "writeError"
    /\ bodyBytes > 0

(* C11 as stated: for every integer the size parameter can parse to, the   *)
(* remaining counter is never negative; it starts at totalSize, never      *)
(* increases, and is zero when the loop exits normally.                    *)
C11_AsStated ==
    /\ [](dataBufferLen >= 0 => pendingSize >= 0)
    /\ []((pc = "loop" /\ readCount = 0) => pendingSize = dataSize)
    /\ [](HasLog("Data sent") => pendingSize = 0)
    /\ [][pc # "headers" => pendingSize' <= pendingSize]_vars

(* C12 as stated: a default is used only when the parameter is absent; a   *)
(* present parameter whose value is not a base-10 integer, the empty value *)
(* included, is a parse failure answered with 400.                         *)
C12_AsStated ==
    /\ (SizePresent /\ ~IsDecimalInteger(Get(sizeParam))) =>
            (~SizeResolved /\ (Done => status = 400))
    /\ (SizeResolved /\ BufferPresent /\ ~IsDecimalInteger(Get(bufferParam))) =>
            (~BufferResolved /\ (Done => status = 400))
    /\ (SizeResolved /\ ~SizePresent) => dataSize = 1073741824
    /\ (BufferResolved /\ ~BufferPresent) => bufferSize = 32768

(* C12 amended: a default is used when the parameter is absent or present  *)
(* with an empty value; a present parameter with a non-empty value that is *)
(* not a base-10 integer is a parse failure answered with 400, and a       *)
(* supplied integer is used as given.                                      *)
C12_DefaultOrFailure ==
    /\ (Get(sizeParam) # <<>> /\ ~IsDecimalInteger(Get(sizeParam))) =>
            (~SizeResolved /\ (Done => status = 400))
    /\ (SizeResolved /\ Get(bufferParam) # <<>>
            /\ ~IsDecimalInteger(Get(bufferParam))) =>
            (~BufferResolved /\ (Done => status = 400))
    /\ (SizeResolved /\ Get(sizeParam) = <<>>) => dataSize = 1073741824
    /\ (BufferResolved /\ Get(bufferParam) = <<>>) => bufferSize = 32768
    /\ \A n \in 0..MaxSize :
            (SizeResolved /\ sizeParam = Present(FormatNat(n))) => dataSize = n
    /\ \A n \in 0..MaxBuffer :
            (BufferResolved /\ bufferParam = Present(FormatNat(n))) => bufferSize = n

C12_Witness ==
    /\ Done /\ status = 400
    /\ sizeParam = Present(EmptyText) /\ SizeResolved /\ dataSize = 1073741824
    /\ bufferParam = Present(<<"-">>) /\ ~BufferResolved

\* The call recorded in io returned the whole slice without error.
WholeCall(io) == ~io.err /\ io.n = io.len

(* C13: reads and writes alternate, starting with a read: every write      *)
(* directly follows a successful full-length read of the same chunk, no    *)
(* read happens before the previous chunk is fully written, and successful *)
(* reads minus successful writes is always 0 or 1.                         *)
C13_Alternation ==
    /\ [](/\ chunksRead - chunksWritten \in {0, 1}
          /\ readCount - writeCount \in {0, 1})
    /\ [][writeCount' # writeCount =>
            (/\ lastIO.op = "read" /\ WholeCall(lastIO)
             /\ lastIO'.op = "write" /\ lastIO'.len = lastIO.len)]_vars
    /\ [][readCount' # readCount =>
            (/\ lastIO.op = "none" \/ (lastIO.op = "write" /\ WholeCall(lastIO))
             /\ chunksRead = chunksWritten
             /\ lastIO'.op = "read")]_vars

C13_Witness ==
    /\ Done /\ fault = "none" /\ dataSize = 5 /\ bufferSize = 2
    /\ chunksRead = 3 /\ chunksWritten = 3 /\ lastIO.op = "write"

CountLog(msg) == Cardinality({i \in 1..Len(logs) : logs[i].msg = msg})

(* C14 as stated: the completion entry "Data sent" is emitted at most once *)
(* per request, and exactly when status 200 was sent and the loop ended    *)
(* normally with remaining = 0 and totalSize bytes written; never on a     *)
(* parse, open, read or write failure or a short transfer.                 *)
C14_AsStated ==
    /\ CountLog("Data sent") <= 1
    /\ HasLog("Data sent") =>
            /\ status = 200 /\ fault = "none" /\ ~panicked
            /\ pendingSize = 0 /\ bodyBytes = dataSize
    /\ (Done /\ status = 200 /\ fault = "none" /\ ~panicked) =>
            HasLog("Data sent")

\* The requests being served, and the locals of each one's handler.
Requests == DOMAIN others \cup {cur}

View(j) == IF j = cur THEN Context ELSE others[j]

\* The handler with locals v returned from a transfer with valid sizes in
\* which the environment injected no fault.
CleanDone(v) ==
    /\ v.pc = "done"
    /\ \E i \in 1..Len(v.logs) : v.logs[i].msg = "Buffer size"
    /\ v.dataSize >= 0 /\ v.bufferSize >= 1
    /\ v.openCount = 1 /\ v.fault = "none"

(* C15: with several requests served concurrently, in any interleaving,    *)
(* the buffer, remaining counter and source handle of each are private: no *)
(* step of one request, failures included, changes the status, the bytes   *)
(* written or the remaining counter of another, and every other request    *)
(* still delivers exactly its requested size.                              *)
C15_Isolation ==
    /\ [][\A j \in DOMAIN others : View(j)' = View(j)]_vars
    /\ [](\A j \in Requests :
            CleanDone(View(j)) =>
                (View(j).status = 200 /\ View(j).bodyBytes = View(j).dataSize))

C15_Witness ==
    \E i \in Requests, j \in Requests :
        /\ i # j
        /\ View(i).pc = "done" /\ View(i).fault = "readError"
        /\ CleanDone(View(j)) /\ View(j).status = 200
        /\ View(j).dataSize = 2 /\ View(j).bodyBytes = 2

(* C16 as stated: whenever both parameters are absent or parse as          *)
(* integers (buffer = 0 included) and every Read and Write call returns,   *)
(* the handler returns, because every iteration of the loop that does not  *)
(* abort strictly decreases remaining; so a transfer of S >= 0 bytes takes *)
(* at most S iterations.                                                   *)
C16_AsStated ==
    /\ [][(pc = "write" /\ pc' = "loop") => pendingSize' < pendingSize]_vars
    /\ []((pc \in {"loop", "write"} /\ dataSize >= 0) => readCount <= dataSize)

\* The remaining counter exists once the buffer is allocated (main.go:110-111).
RemainingSet == dataBufferLen >= 0

(* C17 as stated: at every loop head and at handler return after status    *)
(* 200 the body bytes written so far plus remaining equal totalSize; hence *)
(* on an aborted transfer the bytes delivered are totalSize minus          *)
(* remaining, a whole number of full chunks.                               *)
C17_AsStated ==
    /\ pc = "loop" => bodyBytes + pendingSize = dataSize
    /\ (Done /\ status = 200 /\ RemainingSet) =>
            /\ bodyBytes + pendingSize = dataSize
            /\ (fault # "none" => bodyBytes = chunksWritten * bufferSize)

(* C17 amended: at every loop head the body bytes written so far plus      *)
(* remaining equal totalSize; at handler return after status 200 they      *)
(* equal totalSize plus the bytes that a failed or short Write accepted,   *)
(* if there was one; hence a transfer aborted by a read failure delivered  *)
(* totalSize minus remaining, a whole number of full chunks, and one       *)
(* aborted by a write failure delivered that plus the accepted part of the *)
(* failed chunk.                                                           *)
C17_Accounting ==
    /\ pc = "loop" => bodyBytes + pendingSize = dataSize
    /\ (Done /\ status = 200 /\ RemainingSet) =>
            /\ fault \notin WriteFaults => bodyBytes + pendingSize = dataSize
            /\ fault \in ReadFaults => bodyBytes = chunksWritten * bufferSize
            /\ fault \in WriteFaults =>
                    /\ lastIO.op = "write" /\ lastIO.n \in 0..lastIO.len
                    /\ bodyBytes + pendingSize = dataSize + lastIO.n
                    /\ bodyBytes = chunksWritten * bufferSize + lastIO.n

C17_Witness ==
    /\ Done /\ status = 200 /\ fault = "shortWrite"
    /\ dataSize = 5 /\ bufferSize = 2 /\ lastIO.n = 1
    /\ bodyBytes = 3 /\ pendingSize = 3

(* C18 as stated: for every integer the buffer parameter can parse to,     *)
(* zero and negative values included, the handler ends in a documented     *)
(* outcome only (200 with a streamed body, 400, 500, or an abort after a   *)
(* read or write failure): the buffer is always allocated with a valid     *)
(* length and every chunk slice has a length between 0 and the length of   *)
(* the buffer, so no allocation or slice-bounds fault occurs.              *)
C18_AsStated ==
    /\ ~panicked
    /\ status = 200 => (dataBufferLen >= 0 /\ dataBufferLen = bufferSize)
    /\ pc = "write" => readSize \in 0..dataBufferLen
    /\ Done =>
            \/ status \in {400, 500} /\ bodyBytes = 0
            \/ status = 200 /\ fault = "none" /\ HasLog("Data sent")
            \/ status = 200 /\ fault \in ReadFaults \cup WriteFaults

=============================================================================
